---- MODULE Spec2Model ----
(***************************************************************************)
(* A model of issue_metrics.py: the per-issue measurements, the two        *)
(* averages, the markdown report and main()'s pipeline.                    *)
(*                                                                         *)
(* Representation.                                                         *)
(*   datetime          an integer, seconds since the epoch                 *)
(*   ISO string        <<minute, second>> (issue.created_at / closed_at)   *)
(*   timedelta         an integer, microseconds                            *)
(*   Optional[x]       <<>> for None, <<x>> for a present x                *)
(*   str(timedelta)    <<days, hours, minutes, seconds, microseconds>>     *)
(***************************************************************************)
EXTENDS Integers, Sequences, FiniteSets, TLC

VARIABLES
    pc,                  \* position of the caller: main()'s steps, or a direct call
    issues,              \* the issues the search matched (github3 side)
    restartable,         \* whether iterating the search result again re-yields it
    cursor,              \* how many issues the current iteration has yielded
    issues_with_metrics, \* the list of IssueWithMetrics
    num_issues_open,
    num_issues_closed,
    average_time_to_first_response,
    average_time_to_close,
    calls,               \* the functions invoked so far
    close_calls,         \* the states of the issues measure_time_to_close was run on
    result,              \* what a direct call of a measure function returned
    outputs              \* one entry per write_to_markdown call: argument and text

vars == <<pc, issues, restartable, cursor, issues_with_metrics, num_issues_open,
          num_issues_closed, average_time_to_first_response, average_time_to_close,
          calls, close_calls, result, outputs>>

----------------------------------------------------------------------------
(* Bounds of the model *)

MaxFetched == 2

MaxIssues == 3

MaxTime == 2

MaxComments == 2

MaxSeconds == 1

MaxWrites == 2

Epoch == 59

----------------------------------------------------------------------------
(* Values *)

None == <<>>

Some(x) == <<x>>

TimedeltaMax == 2147483647

Truthy(opt) == opt /= None /\ opt[1] /= 0

FromIso(s) == s[1] * 60 + s[2]

Iso(t) == <<t \div 60, t % 60>>

DatetimeSub(a, b) == (a - b) * 1000000

RoundHalfEven(num, den) ==
    LET q == num \div den
        r == num % den
    IN  IF 2 * r < den THEN q
        ELSE IF 2 * r > den THEN q + 1
        ELSE IF q % 2 = 0 THEN q ELSE q + 1

TimedeltaOfSeconds(total_us, count) == RoundHalfEven(total_us, count)

StrTimedelta(td) ==
    LET secs == td \div 1000000
    IN  <<secs \div 86400, (secs % 86400) \div 3600, (secs % 3600) \div 60,
          secs % 60, td % 1000000>>

StrOptional(opt) == IF opt = None THEN <<"None">> ELSE StrTimedelta(opt[1])

----------------------------------------------------------------------------
(* The inputs: issues as the GitHub API hands them over *)

States == {"open", "closed"}

Min(a, b) == IF a <= b THEN a ELSE b

Stamps == Epoch .. (Epoch + MaxTime)

\* Ascending sequences of instants, at most n long (the API lists oldest first).
RECURSIVE StampSeqs(_)
StampSeqs(n) ==
    IF n = 0 THEN {<<>>}
    ELSE LET shorter == StampSeqs(n - 1)
         IN  shorter \cup
             {Append(s, t) : s \in {x \in shorter : Len(x) = n - 1}, t \in Stamps}

Ascending(s) == \A i \in 1 .. (Len(s) - 1) : s[i] <= s[i + 1]

\* An issue as fetched; closed_at is present exactly when the issue is closed.
RawIssue(n, st, closed, cs, pr, rs) ==
    [title |-> <<"title", n>>, html_url |-> <<"url", n>>,
     created_at |-> Iso(Epoch), state |-> st, closed_at |-> closed,
     comments |-> cs, pull_request_urls |-> pr, reviews |-> rs]

Closings(stamps) == {None} \cup {Some(Iso(t)) : t \in stamps}

WellFormed(i) == (i.state = "closed") <=> (i.closed_at /= None)

\* One issue with up to MaxComments comments and reviews; a plain issue may
\* carry review instants, which the code must not look at.
RichIssues ==
    {i \in {RawIssue(1, st, cl, cs, pr, rs) :
                st \in States, cl \in Closings(Stamps),
                cs \in {s \in StampSeqs(MaxComments) : Ascending(s)},
                pr \in BOOLEAN,
                rs \in {s \in StampSeqs(MaxComments) : Ascending(s)}} :
        WellFormed(i)}

\* The issues main()'s search may match: at most one comment, and a review
\* only on a pull request.
FetchStamps == {Epoch, Epoch + 1}

Reviewed == {<<FALSE, <<>> >>, <<TRUE, <<>> >>, <<TRUE, <<Epoch>> >>}

FetchedIssues(n) ==
    {RawIssue(n, st, cl, cs, pr[1], pr[2]) :
        st \in States, cl \in Closings(FetchStamps),
        cs \in {<<>>} \cup {<<t>> : t \in FetchStamps},
        pr \in Reviewed}

RECURSIVE FetchedLists(_)
FetchedLists(n) ==
    IF n = 0 THEN {<<>>}
    ELSE LET shorter == FetchedLists(n - 1)
         IN  shorter \cup
             {Append(s, i) : s \in {x \in shorter : Len(x) = n - 1},
                             i \in {j \in FetchedIssues(n) : WellFormed(j)}}

----------------------------------------------------------------------------
(* The per-issue measurements *)

\* An API listing asked for `number` items yields at most that many.
Take(s, number) == SubSeq(s, 1, Min(number, Len(s)))

\* for x in listing: var = x     (var keeps its initial None on an empty listing)
LoopAssign(listing) == IF listing = <<>> THEN None ELSE Some(listing[Len(listing)])

\* As measure_time_to_first_response, but the reviews are read whether or not the
\* issue is a pull request.
measure_time_to_first_response_any_review(issue) ==
    LET first_comment_time == LoopAssign(Take(issue.comments, 1))
        first_review_comment_time == LoopAssign(Take(issue.reviews, 1))
        issue_time == FromIso(issue.created_at)
    IN  IF first_comment_time /= None /\ first_review_comment_time /= None
        THEN Some(DatetimeSub(Min(first_comment_time[1], first_review_comment_time[1]),
                              issue_time))
        ELSE IF first_comment_time /= None
        THEN Some(DatetimeSub(first_comment_time[1], issue_time))
        ELSE IF first_review_comment_time /= None
        THEN Some(DatetimeSub(first_review_comment_time[1], issue_time))
        ELSE None

measure_time_to_first_response(issue) ==
    LET first_comment_time == LoopAssign(Take(issue.comments, 1))
        first_review_comment_time ==
            IF issue.pull_request_urls
            THEN LoopAssign(Take(issue.reviews, 1))
            ELSE None
        issue_time == FromIso(issue.created_at)
    IN  IF first_comment_time /= None /\ first_review_comment_time /= None
        THEN Some(DatetimeSub(Min(first_comment_time[1], first_review_comment_time[1]),
                              issue_time))
        ELSE IF first_comment_time /= None
        THEN Some(DatetimeSub(first_comment_time[1], issue_time))
        ELSE IF first_review_comment_time /= None
        THEN Some(DatetimeSub(first_review_comment_time[1], issue_time))
        ELSE None

Raised == [raised |-> TRUE, value |-> None]

Returned(v) == [raised |-> FALSE, value |-> v]

\* As measure_time_to_close, with the operands of the subtraction swapped.
measure_time_to_close_swapped(issue) ==
    IF issue.state /= "closed"
    THEN Raised
    ELSE Returned(Some(DatetimeSub(FromIso(issue.created_at),
                                   FromIso(issue.closed_at[1]))))

measure_time_to_close(issue) ==
    IF issue.state /= "closed"
    THEN Raised
    ELSE Returned(Some(DatetimeSub(FromIso(issue.closed_at[1]),
                                   FromIso(issue.created_at))))

IssueWithMetrics(title, html_url, time_to_first_response, time_to_close) ==
    [title |-> title, html_url |-> html_url,
     time_to_first_response |-> time_to_first_response,
     time_to_close |-> time_to_close]

\* As PerIssue, without the check of the state before measure_time_to_close.
PerIssue_ungated(issue) ==
    LET ttfr == measure_time_to_first_response(issue)
        base == IssueWithMetrics(issue.title, issue.html_url, ttfr, None)
        r == measure_time_to_close(issue)
    IN  [iwm |-> [base EXCEPT !.time_to_close = r.value],
         open |-> IF issue.state = "open" THEN 1 ELSE 0,
         closed |-> IF issue.state = "closed" THEN 1 ELSE 0,
         close_called |-> TRUE, raised |-> r.raised]

\* As PerIssue, with `if` in place of `elif` and the open counter bumped for
\* every issue that reaches it.
PerIssue_counts_twice(issue) ==
    LET ttfr == measure_time_to_first_response(issue)
        base == IssueWithMetrics(issue.title, issue.html_url, ttfr, None)
    IN  IF issue.state = "closed"
        THEN LET r == measure_time_to_close(issue)
             IN  [iwm |-> [base EXCEPT !.time_to_close = r.value],
                  open |-> 1, closed |-> 1, close_called |-> TRUE,
                  raised |-> r.raised]
        ELSE [iwm |-> base, open |-> 1, closed |-> 0, close_called |-> FALSE,
              raised |-> FALSE]

\* One pass of get_per_issue_metrics' loop body: the IssueWithMetrics it appends,
\* what it adds to the two counters, and whether measure_time_to_close was
\* called (and raised).
PerIssue(issue) ==
    LET ttfr == measure_time_to_first_response(issue)
        base == IssueWithMetrics(issue.title, issue.html_url, ttfr, None)
    IN  IF issue.state = "closed"
        THEN LET r == measure_time_to_close(issue)
             IN  [iwm |-> [base EXCEPT !.time_to_close = r.value],
                  open |-> 0, closed |-> 1, close_called |-> TRUE,
                  raised |-> r.raised]
        ELSE IF issue.state = "open"
        THEN [iwm |-> base, open |-> 1, closed |-> 0, close_called |-> FALSE,
              raised |-> FALSE]
        ELSE [iwm |-> base, open |-> 0, closed |-> 0, close_called |-> FALSE,
              raised |-> FALSE]

----------------------------------------------------------------------------
(* The averages *)

\* The loop of get_average_time_to_first_response: <<total, none_count>>.
RECURSIVE FirstResponseLoop(_, _, _)
FirstResponseLoop(list, total, none_count) ==
    IF list = <<>> THEN <<total, none_count>>
    ELSE LET issue == Head(list)
         IN  IF Truthy(issue.time_to_first_response)
             THEN FirstResponseLoop(Tail(list),
                                    total + issue.time_to_first_response[1], none_count)
             ELSE FirstResponseLoop(Tail(list), total, none_count + 1)

get_average_time_to_first_response(list) ==
    LET loop == FirstResponseLoop(list, 0, 0)
        total_time_to_first_response == loop[1]
        none_count == loop[2]
    IN  IF Len(list) - none_count <= 0
        THEN None
        ELSE Some(TimedeltaOfSeconds(total_time_to_first_response,
                                     Len(list) - none_count))

HasTimeToClose(issue) == issue.time_to_close /= None

\* The loop of get_average_time_to_close over the filtered list.
RECURSIVE CloseLoop(_, _)
CloseLoop(list, total) ==
    IF list = <<>> THEN total
    ELSE LET issue == Head(list)
         IN  IF Truthy(issue.time_to_close)
             THEN CloseLoop(Tail(list), total + issue.time_to_close[1])
             ELSE CloseLoop(Tail(list), total)

\* As get_average_time_to_close, dividing by the length of the whole list.
get_average_time_to_close_all(list) ==
    LET issues_with_time_to_close == SelectSeq(list, HasTimeToClose)
        total_time_to_close ==
            IF issues_with_time_to_close /= <<>>
            THEN Some(CloseLoop(issues_with_time_to_close, 0))
            ELSE None
    IN  IF Len(issues_with_time_to_close) > 0 /\ total_time_to_close /= None
        THEN Some(TimedeltaOfSeconds(total_time_to_close[1], Len(list)))
        ELSE None

get_average_time_to_close(list) ==
    LET issues_with_time_to_close == SelectSeq(list, HasTimeToClose)
        total_time_to_close ==
            IF issues_with_time_to_close /= <<>>
            THEN Some(CloseLoop(issues_with_time_to_close, 0))
            ELSE None
        num_issues_with_time_to_close == Len(issues_with_time_to_close)
    IN  IF num_issues_with_time_to_close > 0 /\ total_time_to_close /= None
        THEN Some(TimedeltaOfSeconds(total_time_to_close[1],
                                     num_issues_with_time_to_close))
        ELSE None

----------------------------------------------------------------------------
(* The report *)

\* key=lambda x: x.time_to_first_response or timedelta.max
SortKey(x) ==
    IF Truthy(x.time_to_first_response)
    THEN x.time_to_first_response[1]
    ELSE TimedeltaMax

\* As InsertSorted, but x goes before the elements of equal key.
RECURSIVE InsertSorted_unstable(_, _)
InsertSorted_unstable(sorted, x) ==
    IF sorted = <<>> THEN <<x>>
    ELSE LET last == sorted[Len(sorted)]
         IN  IF SortKey(last) < SortKey(x)
             THEN Append(sorted, x)
             ELSE Append(InsertSorted_unstable(SubSeq(sorted, 1, Len(sorted) - 1), x),
                         last)

\* x goes after every element whose key is not greater (list.sort is stable).
RECURSIVE InsertSorted(_, _)
InsertSorted(sorted, x) ==
    IF sorted = <<>> THEN <<x>>
    ELSE LET last == sorted[Len(sorted)]
         IN  IF SortKey(last) <= SortKey(x)
             THEN Append(sorted, x)
             ELSE Append(InsertSorted(SubSeq(sorted, 1, Len(sorted) - 1), x), last)

RECURSIVE ListSort(_)
ListSort(list) ==
    IF list = <<>> THEN <<>>
    ELSE InsertSorted(ListSort(SubSeq(list, 1, Len(list) - 1)), list[Len(list)])

NoList == [none |-> TRUE, items |-> <<>>]

TheList(list) == [none |-> FALSE, items |-> list]

SentinelText == << <<"no issues found for the given search criteria">>, <<"">> >>

SummaryBlock(avg_first, avg_close, opened, closed, total) ==
    << <<"# Issue Metrics">>, <<"">>,
       <<"| Metric | Value |">>,
       <<"| --- | ---: |">>,
       <<"| Average time to first response |", StrOptional(avg_first)>>,
       <<"| Average time to close |", StrOptional(avg_close)>>,
       <<"| Number of issues that remain open |", opened>>,
       <<"| Number of issues closed |", closed>>,
       <<"| Total number of issues created |", total>>, <<"">>,
       <<"| Title | URL | Time to first response | Time to close ">>,
       <<"| --- | --- | ---: | ---: |">> >>

Row(issue) ==
    <<"|", issue.title, issue.html_url, StrOptional(issue.time_to_first_response),
      StrOptional(issue.time_to_close)>>

Rows(list) == [k \in 1 .. Len(list) |-> Row(list[k])]

\* As write_to_markdown, with the empty list taken for a list of issues.
write_to_markdown_none_only(arg, avg_first, avg_close, opened, closed) ==
    IF arg.none
    THEN [items |-> arg.items, text |-> SentinelText]
    ELSE LET sorted == ListSort(arg.items)
         IN  [items |-> sorted,
              text |-> SummaryBlock(avg_first, avg_close, opened, closed, Len(sorted))
                       \o Rows(sorted)]

\* What write_to_markdown leaves in the caller's list and in the file.
write_to_markdown(arg, avg_first, avg_close, opened, closed) ==
    IF arg.none \/ Len(arg.items) = 0
    THEN [items |-> arg.items, text |-> SentinelText]
    ELSE LET sorted == ListSort(arg.items)
         IN  [items |-> sorted,
              text |-> SummaryBlock(avg_first, avg_close, opened, closed, Len(sorted))
                       \o Rows(sorted)]

----------------------------------------------------------------------------
(* main(): search, derive, aggregate, report *)

Init ==
    /\ pc = "start"
    /\ issues \in FetchedLists(MaxFetched)
    /\ restartable \in BOOLEAN
    /\ cursor = 0
    /\ issues_with_metrics = <<>>
    /\ num_issues_open = 0
    /\ num_issues_closed = 0
    /\ average_time_to_first_response = None
    /\ average_time_to_close = None
    /\ calls = {}
    /\ close_calls = {}
    /\ result = <<>>
    /\ outputs = <<>>

\* `for x in issues`: a restartable result starts over, a one-shot one goes on
\* from where the previous iteration left it.
IterStart(pos) == IF restartable THEN 0 ELSE pos

Written(arg, avg_first, avg_close, opened, closed) ==
    [arg |-> arg,
     summary |-> <<avg_first, avg_close, opened, closed>>,
     text |-> write_to_markdown(arg, avg_first, avg_close, opened, closed).text]

\* search_issues: runs the query and prints every title, which iterates the
\* result to its end, then returns the result object.
SearchIssues ==
    /\ pc = "start"
    /\ cursor' = Len(issues)
    /\ calls' = calls \cup {"search_issues"}
    /\ pc' = "searched"
    /\ UNCHANGED <<issues, restartable, issues_with_metrics, num_issues_open,
                   num_issues_closed, average_time_to_first_response,
                   average_time_to_close, close_calls, result, outputs>>

\* main, len(issues.items) <= 0: the report of no issues, then return.
NoIssuesFound ==
    /\ pc = "searched"
    /\ Len(issues) <= 0
    /\ outputs' = Append(outputs, Written(NoList, None, None, 0, 0))
    /\ calls' = calls \cup {"write_to_markdown"}
    /\ pc' = "done"
    /\ UNCHANGED <<issues, restartable, cursor, issues_with_metrics, num_issues_open,
                   num_issues_closed, average_time_to_first_response,
                   average_time_to_close, close_calls, result>>

\* get_per_issue_metrics is entered and its loop starts iterating the result.
StartPerIssueMetrics ==
    /\ pc = "searched"
    /\ Len(issues) > 0
    /\ issues_with_metrics' = <<>>
    /\ num_issues_open' = 0
    /\ num_issues_closed' = 0
    /\ cursor' = IterStart(cursor)
    /\ calls' = calls \cup {"get_per_issue_metrics"}
    /\ pc' = "per_issue"
    /\ UNCHANGED <<issues, restartable, average_time_to_first_response,
                   average_time_to_close, close_calls, result, outputs>>

\* One pass of the loop of get_per_issue_metrics.
PerIssueStep ==
    /\ pc = "per_issue"
    /\ cursor < Len(issues)
    /\ LET issue == issues[cursor + 1]
           r == PerIssue(issue)
       IN  /\ cursor' = cursor + 1
           /\ close_calls' = IF r.close_called
                             THEN close_calls \cup {issue.state}
                             ELSE close_calls
           /\ IF r.raised
              THEN /\ pc' = "raised"
                   /\ UNCHANGED <<issues_with_metrics, num_issues_open,
                                  num_issues_closed>>
              ELSE /\ pc' = "per_issue"
                   /\ issues_with_metrics' = Append(issues_with_metrics, r.iwm)
                   /\ num_issues_open' = num_issues_open + r.open
                   /\ num_issues_closed' = num_issues_closed + r.closed
    /\ UNCHANGED <<issues, restartable, average_time_to_first_response,
                   average_time_to_close, calls, result, outputs>>

\* The loop ends and get_per_issue_metrics returns.
PerIssueReturn ==
    /\ pc = "per_issue"
    /\ cursor >= Len(issues)
    /\ pc' = "averages"
    /\ UNCHANGED <<issues, restartable, cursor, issues_with_metrics, num_issues_open,
                   num_issues_closed, average_time_to_first_response,
                   average_time_to_close, calls, close_calls, result, outputs>>

\* main: the two averages, the second only when some issue was closed.
Averages ==
    /\ pc = "averages"
    /\ average_time_to_first_response' =
           get_average_time_to_first_response(issues_with_metrics)
    /\ average_time_to_close' =
           IF num_issues_closed > 0
           THEN get_average_time_to_close(issues_with_metrics)
           ELSE None
    /\ calls' = calls \cup {"get_average_time_to_first_response"}
                      \cup (IF num_issues_closed > 0
                            THEN {"get_average_time_to_close"} ELSE {})
    /\ pc' = "write"
    /\ UNCHANGED <<issues, restartable, cursor, issues_with_metrics, num_issues_open,
                   num_issues_closed, close_calls, result, outputs>>

\* main: the report; write_to_markdown sorts the caller's list in place.
WriteReport ==
    /\ pc = "write"
    /\ LET arg == TheList(issues_with_metrics)
       IN  /\ outputs' = Append(outputs,
                  Written(arg, average_time_to_first_response, average_time_to_close,
                          num_issues_open, num_issues_closed))
           /\ issues_with_metrics' =
                  write_to_markdown(arg, average_time_to_first_response,
                                    average_time_to_close, num_issues_open,
                                    num_issues_closed).items
    /\ calls' = calls \cup {"write_to_markdown"}
    /\ pc' = "done"
    /\ UNCHANGED <<issues, restartable, cursor, num_issues_open, num_issues_closed,
                   average_time_to_first_response, average_time_to_close,
                   close_calls, result>>

\* measure_time_to_close called on an issue directly, not through the driver.
CallMeasureTimeToClose ==
    /\ pc = "start"
    /\ \E i \in 1 .. Len(issues) :
          result' = <<[fn |-> "measure_time_to_close", issue |-> issues[i],
                       ret |-> measure_time_to_close(issues[i])]>>
    /\ pc' = "called"
    /\ UNCHANGED <<issues, restartable, cursor, issues_with_metrics, num_issues_open,
                   num_issues_closed, average_time_to_first_response,
                   average_time_to_close, calls, close_calls, outputs>>

Next ==
    \/ SearchIssues
    \/ NoIssuesFound
    \/ StartPerIssueMetrics
    \/ PerIssueStep
    \/ PerIssueReturn
    \/ Averages
    \/ WriteReport
    \/ CallMeasureTimeToClose

Spec == Init /\ [][Next]_vars

----------------------------------------------------------------------------
(* The measurements of one issue, called directly *)

InitIssue ==
    /\ pc = "start"
    /\ \E i \in RichIssues : issues = <<i>>
    /\ restartable = TRUE
    /\ cursor = 0
    /\ issues_with_metrics = <<>>
    /\ num_issues_open = 0
    /\ num_issues_closed = 0
    /\ average_time_to_first_response = None
    /\ average_time_to_close = None
    /\ calls = {}
    /\ close_calls = {}
    /\ result = <<>>
    /\ outputs = <<>>

CallMeasureTimeToFirstResponse ==
    /\ pc = "start"
    /\ \E i \in 1 .. Len(issues) :
          result' = <<[fn |-> "measure_time_to_first_response", issue |-> issues[i],
                       ret |-> measure_time_to_first_response(issues[i])]>>
    /\ pc' = "called"
    /\ UNCHANGED <<issues, restartable, cursor, issues_with_metrics, num_issues_open,
                   num_issues_closed, average_time_to_first_response,
                   average_time_to_close, calls, close_calls, outputs>>

NextIssue ==
    \/ CallMeasureTimeToFirstResponse
    \/ CallMeasureTimeToClose

SpecIssue == InitIssue /\ [][NextIssue]_vars

----------------------------------------------------------------------------
(* The averages and the report, called directly on a list of IssueWithMetrics *)

Durations == {None} \cup {Some(s * 1000000) : s \in 0 .. MaxSeconds}

RECURSIVE MetricLists(_)
MetricLists(n) ==
    IF n = 0 THEN {<<>>}
    ELSE LET shorter == MetricLists(n - 1)
         IN  shorter \cup
             {Append(s, IssueWithMetrics(<<"title", n>>, <<"url", n>>, f, c)) :
                 s \in {x \in shorter : Len(x) = n - 1},
                 f \in Durations, c \in Durations}

InitAgg ==
    /\ pc = "direct"
    /\ issues = <<>>
    /\ restartable = TRUE
    /\ cursor = 0
    /\ issues_with_metrics \in MetricLists(MaxIssues)
    /\ num_issues_open = 0
    /\ num_issues_closed = 0
    /\ average_time_to_first_response = None
    /\ average_time_to_close = None
    /\ calls = {}
    /\ close_calls = {}
    /\ result = <<>>
    /\ outputs = <<>>

CallAverageFirstResponse ==
    /\ pc = "direct"
    /\ "get_average_time_to_first_response" \notin calls
    /\ average_time_to_first_response' =
           get_average_time_to_first_response(issues_with_metrics)
    /\ calls' = calls \cup {"get_average_time_to_first_response"}
    /\ UNCHANGED <<pc, issues, restartable, cursor, issues_with_metrics,
                   num_issues_open, num_issues_closed, average_time_to_close,
                   close_calls, result, outputs>>

CallAverageClose ==
    /\ pc = "direct"
    /\ "get_average_time_to_close" \notin calls
    /\ average_time_to_close' = get_average_time_to_close(issues_with_metrics)
    /\ calls' = calls \cup {"get_average_time_to_close"}
    /\ UNCHANGED <<pc, issues, restartable, cursor, issues_with_metrics,
                   num_issues_open, num_issues_closed,
                   average_time_to_first_response, close_calls, result, outputs>>

CallWrite ==
    /\ pc = "direct"
    /\ Len(outputs) < MaxWrites
    /\ LET arg == TheList(issues_with_metrics)
       IN  /\ outputs' = Append(outputs,
                  Written(arg, average_time_to_first_response, average_time_to_close,
                          num_issues_open, num_issues_closed))
           /\ issues_with_metrics' =
                  write_to_markdown(arg, average_time_to_first_response,
                                    average_time_to_close, num_issues_open,
                                    num_issues_closed).items
    /\ calls' = calls \cup {"write_to_markdown"}
    /\ UNCHANGED <<pc, issues, restartable, cursor, num_issues_open,
                   num_issues_closed, average_time_to_first_response,
                   average_time_to_close, close_calls, result>>

NextAgg ==
    \/ CallAverageFirstResponse
    \/ CallAverageClose
    \/ CallWrite

SpecAgg == InitAgg /\ [][NextAgg]_vars

----------------------------------------------------------------------------
(* Vocabulary of the properties *)

RECURSIVE SumOf(_, _, _)
\* The sum of field[k] over the indices k of set.
SumOf(list, set, field) ==
    IF set = {} THEN 0
    ELSE LET k == CHOOSE x \in set : TRUE
         IN  list[k][field][1] + SumOf(list, set \ {k}, field)

Present(list, field) == {k \in 1 .. Len(list) : list[k][field] /= None}

Abs(x) == IF x < 0 THEN -x ELSE x

\* avg is the quotient sum / count, to the nearest microsecond.
IsQuotient(avg, sum, count) == 2 * Abs(avg * count - sum) <= count

\* The average a list must have for one of its two fields: None when no issue has
\* the field, else the sum of the present values over their number.
IsAverageOf(avg, list, field) ==
    LET present == Present(list, field)
    IN  IF present = {}
        THEN avg = None
        ELSE /\ avg /= None
             /\ IsQuotient(avg[1], SumOf(list, present, field), Cardinality(present))

TableOutputs == {k \in 1 .. Len(outputs) : Len(outputs[k].text) > 2}

HeaderLines == Len(SummaryBlock(None, None, 0, 0, 0))

\* C1: get_average_time_to_first_response returns the sum of the present values
\* over the number of issues that have one, and None exactly when none has one;
\* a present zero duration counts as present.
C1_AverageFirstResponse ==
    "get_average_time_to_first_response" \in calls
        => IsAverageOf(average_time_to_first_response, issues_with_metrics,
                       "time_to_first_response")

\* C2: get_average_time_to_close returns the sum of the present time_to_close
\* values over the number of issues that have one, and None exactly when no issue
\* has one (the empty list included).
C2_AverageTimeToClose ==
    "get_average_time_to_close" \in calls
        => IsAverageOf(average_time_to_close, issues_with_metrics, "time_to_close")

\* The average was taken over a list with a zero time_to_close and an issue
\* without one, and is zero.
C2_Witness ==
    /\ pc = "direct"
    /\ "get_average_time_to_close" \in calls
    /\ Len(issues_with_metrics) = 2
    /\ \E k \in 1 .. 2 : issues_with_metrics[k].time_to_close = None
    /\ \E k \in 1 .. 2 : issues_with_metrics[k].time_to_close = Some(0)
    /\ average_time_to_close = Some(0)

\* The instants measure_time_to_first_response may answer with: the first comment,
\* and the first review when the issue is a pull request.
Candidates(issue) ==
    (IF issue.comments /= <<>> THEN {issue.comments[1]} ELSE {})
    \cup (IF issue.pull_request_urls /= FALSE /\ issue.reviews /= <<>>
          THEN {issue.reviews[1]} ELSE {})

Earliest(set) == CHOOSE m \in set : \A c \in set : m <= c

FirstResponseCalls ==
    {k \in 1 .. Len(result) : result[k].fn = "measure_time_to_first_response"}

CloseCalls == {k \in 1 .. Len(result) : result[k].fn = "measure_time_to_close"}

\* C3: measure_time_to_first_response returns the earliest of the first comment
\* and (on a pull request only) the first review, minus the creation time, and
\* None when there is neither; reviews of a plain issue never count.
C3_FirstResponse ==
    \A k \in FirstResponseCalls :
        LET issue == result[k].issue
            candidates == Candidates(issue)
        IN  IF candidates = {}
            THEN result[k].ret = None
            ELSE result[k].ret =
                     Some((Earliest(candidates) - FromIso(issue.created_at)) * 1000000)

\* A plain issue whose review is older than its first comment was measured: the
\* comment decided.
C3_Witness ==
    \E k \in FirstResponseCalls :
        LET issue == result[k].issue
        IN  /\ ~issue.pull_request_urls
            /\ issue.comments /= <<>>
            /\ issue.reviews /= <<>>
            /\ issue.reviews[1] < issue.comments[1]
            /\ result[k].ret = Some((issue.comments[1] - FromIso(issue.created_at)) * 1000000)

\* The issue an IssueWithMetrics was made from.
SourceOf(iwm) == CHOOSE i \in {issues[j] : j \in 1 .. Len(issues)} : i.title = iwm.title

\* C4: every IssueWithMetrics of get_per_issue_metrics has time_to_close equal to
\* closed_at minus created_at when its issue is closed, and None when it is open.
C4_TimeToClose ==
    \A k \in 1 .. Len(issues_with_metrics) :
        LET iwm == issues_with_metrics[k]
            issue == SourceOf(iwm)
        IN  /\ \E j \in 1 .. Len(issues) : issues[j].title = iwm.title
            /\ issue.state = "closed" =>
                   iwm.time_to_close =
                       Some((FromIso(issue.closed_at[1]) - FromIso(issue.created_at))
                            * 1000000)
            /\ issue.state = "open" => iwm.time_to_close = None

\* main ran to its end over an open issue and an issue closed a second after it
\* was created.
C4_Witness ==
    /\ pc = "done"
    /\ Len(issues_with_metrics) = 2
    /\ \E k \in 1 .. 2 : issues_with_metrics[k].time_to_close = Some(1000000)
    /\ \E k \in 1 .. 2 : /\ issues_with_metrics[k].time_to_close = None
                         /\ SourceOf(issues_with_metrics[k]).state = "open"

\* C5: measure_time_to_close raises, and returns no duration, whenever the issue
\* is not closed; get_per_issue_metrics calls it on closed issues only and so
\* never raises.
C5_CloseOnlyWhenClosed ==
    /\ \A k \in CloseCalls :
           /\ result[k].ret.raised <=> result[k].issue.state /= "closed"
           /\ result[k].ret.raised => result[k].ret.value = None
    /\ pc /= "raised"
    /\ close_calls \subseteq {"closed"}

\* measure_time_to_close was called on an open issue and raised.
C5_Witness ==
    \E k \in CloseCalls :
        /\ result[k].issue.state = "open"
        /\ result[k].ret.raised

\* C6: every issue adds one to exactly one of the two counters: open + closed is
\* the number of IssueWithMetrics made so far, and in the report it is the total.
C6_CountersPartition ==
    /\ num_issues_open + num_issues_closed = Len(issues_with_metrics)
    /\ \A k \in TableOutputs :
           LET text == outputs[k].text
           IN  /\ text[7][2] + text[8][2] = text[9][2]
               /\ text[9][2] = Len(outputs[k].arg.items)

\* The report of one open and one closed issue was written.
C6_Witness ==
    /\ pc = "done"
    /\ num_issues_open = 1
    /\ num_issues_closed = 1
    /\ TableOutputs /= {}
    /\ \A k \in TableOutputs : outputs[k].text[9][2] = 2

\* The orders of the n indices.
Orders(n) == {f \in [1 .. n -> 1 .. n] : \A a, b \in 1 .. n : f[a] = f[b] => a = b}

\* x comes strictly before y in ascending time_to_first_response, None last.
Before(x, y) ==
    /\ x.time_to_first_response /= None
    /\ \/ y.time_to_first_response = None
       \/ x.time_to_first_response[1] < y.time_to_first_response[1]

\* order lists the indices of list ascending by time_to_first_response, None
\* last, equal keys in input order.
IsStableAscending(list, order) ==
    \A a, b \in 1 .. Len(list) :
        a < b => /\ ~Before(list[order[b]], list[order[a]])
                 /\ ~Before(list[order[a]], list[order[b]]) => order[a] < order[b]

TableRows(text) == SubSeq(text, HeaderLines + 1, Len(text))

\* C7: the rows of the report are in ascending order of time_to_first_response,
\* every present value (a zero duration too) before every absent one, equal keys
\* in input order.
C7_RowsStableAscending ==
    \A k \in TableOutputs :
        LET list == outputs[k].arg.items
        IN  \E order \in Orders(Len(list)) :
                /\ IsStableAscending(list, order)
                /\ TableRows(outputs[k].text) = [j \in 1 .. Len(list) |-> Row(list[order[j]])]

SentinelOutputs == {k \in 1 .. Len(outputs) : outputs[k].text = SentinelText}

\* C8: write_to_markdown writes the single line of no issues found, and no table,
\* exactly when the list is empty or None; otherwise the summary block and then
\* one row per issue. A search of main that matches nothing ends with that line
\* without calling get_per_issue_metrics or an average.
C8_SentinelIffEmpty ==
    /\ \A k \in 1 .. Len(outputs) :
           LET arg == outputs[k].arg
               text == outputs[k].text
               n == Len(arg.items)
           IN  /\ k \in SentinelOutputs <=> (arg.none \/ n = 0)
               /\ k \notin SentinelOutputs =>
                      /\ Len(text) = HeaderLines + n
                      /\ text[1] = <<"# Issue Metrics">>
                      /\ text[HeaderLines - 1] =
                             <<"| Title | URL | Time to first response | Time to close ">>
                      /\ \A j \in 1 .. n : text[HeaderLines + j][1] = "|"
                      /\ {text[HeaderLines + j][2] : j \in 1 .. n}
                             = {arg.items[j].title : j \in 1 .. n}
    /\ (Len(issues) = 0 /\ pc /= "direct") =>
           /\ calls \subseteq {"search_issues", "write_to_markdown"}
           /\ pc = "done" => Len(outputs) = 1 /\ SentinelOutputs = {1}

\* main ended on a search that matched nothing.
C8_Witness ==
    /\ pc = "done"
    /\ Len(issues) = 0
    /\ outputs /= <<>>
    /\ outputs[1].arg.none
    /\ outputs[1].text = SentinelText

\* C9: two write_to_markdown calls in a row on the same list with the same
\* summary values write the same text; the first call's sort is left as it is
\* by the second, and the list keeps the same IssueWithMetrics throughout.
C9_RenderTwice ==
    /\ \A k \in 1 .. (Len(outputs) - 1) :
           /\ outputs[k].summary = outputs[k + 1].summary
                  => outputs[k].text = outputs[k + 1].text
           /\ k + 1 = Len(outputs) => issues_with_metrics = outputs[k + 1].arg.items
    /\ \A k \in 1 .. Len(outputs) :
           /\ Len(issues_with_metrics) = Len(outputs[k].arg.items)
           /\ {issues_with_metrics[j] : j \in 1 .. Len(issues_with_metrics)}
                  = {outputs[k].arg.items[j] : j \in 1 .. Len(outputs[k].arg.items)}

\* The report was written twice with the same summary; the first call's sort
\* moved an issue with a response in front of two issues without one.
C9_Witness ==
    /\ pc = "direct"
    /\ Len(outputs) = 2
    /\ outputs[1].summary = outputs[2].summary
    /\ Len(outputs[1].arg.items) = 3
    /\ outputs[1].arg.items[1].time_to_first_response = None
    /\ outputs[1].arg.items[2].time_to_first_response = None
    /\ outputs[1].arg.items[3].time_to_first_response = Some(1000000)
    /\ outputs[2].arg.items[1] = outputs[1].arg.items[3]
    /\ outputs[1].text = outputs[2].text

\* C10: with a one-shot search result, main feeds every fetched issue to
\* get_per_issue_metrics exactly once: one IssueWithMetrics per fetched issue, in
\* fetch order, and the report's total is the number of issues matched.
C10_EveryIssueDerivedOnce ==
    ~restartable =>
        /\ pc = "averages" =>
               [k \in 1 .. Len(issues_with_metrics) |-> issues_with_metrics[k].title]
                   = [k \in 1 .. Len(issues) |-> issues[k].title]
        /\ (pc = "done" /\ Len(issues) > 0) =>
               /\ TableOutputs = {1}
               /\ outputs[1].text[9][2] = Len(issues)

====
